---- MODULE Spec2Model ----
(***************************************************************************)
(* print_diagonal (0x04-more_functions_nested_loops/7-print_diagonal.c)    *)
(* as a state machine: one action per statement of the function, the       *)
(* output stream as a sequence of characters, and a caller that invokes    *)
(* the function several times, each time on a fresh stream.                *)
(***************************************************************************)
EXTENDS Integers, Sequences, FiniteSets, TLC

VARIABLES n, col, row, pc, out, nput, hist, intMax

vars == <<n, col, row, pc, out, nput, hist, intMax>>

\* ---- bounds ----
NegMax == 2
NMax == 3
MaxCalls == 3
WBits == 4

\* ---- the int type ----
\* INT_MAX of the usual build (32-bit int)
INT_MAX == 2147483647

RECURSIVE Pow2(_)
Pow2(k) == IF k <= 0 THEN 1 ELSE 2 * Pow2(k - 1)

\* INT_MAX of an int that is WBits wide
IntMaxW == Pow2(WBits - 1) - 1

\* INT_MIN of the build whose INT_MAX is intMax (two's complement)
IntMin == -intMax - 1

\* ---- characters ----
SP == " "
BS == "\\"
NL == "\n"
Chars == {SP, BS, NL}

\* _putchar(c): appends the character to the stream, always succeeds
_putchar(c) ==
    /\ out' = Append(out, c)
    /\ nput' = nput + 1

\* ---- the caller ----
\* a call print_diagonal(a) on a fresh stream; col and row are
\* uninitialised locals (int col, row;) and hold indeterminate values
Call(S, k) ==
    /\ pc = "idle"
    /\ Len(hist) < k
    /\ \E a \in S, c \in S, r \in S :
         /\ n' = a
         /\ col' = c
         /\ row' = r
    /\ out' = <<>>
    /\ nput' = 0
    /\ pc' = "entry"
    /\ UNCHANGED <<hist, intMax>>

CallSmall == Call((-NegMax)..NMax, MaxCalls)

CallAny == Call(IntMin..intMax, 1)

\* ---- print_diagonal, statement by statement ----
\* the branch taken on n < 0 only
Entry_Lt ==
    /\ pc = "entry"
    /\ pc' = IF n < 0 THEN "degenerate" ELSE "outer_init"
    /\ UNCHANGED <<n, col, row, out, nput, hist, intMax>>

\* if (n <= 0)
Entry ==
    /\ pc = "entry"
    /\ pc' = IF n <= 0 THEN "degenerate" ELSE "outer_init"
    /\ UNCHANGED <<n, col, row, out, nput, hist, intMax>>

\* _putchar('\n') of the n <= 0 branch
Degenerate ==
    /\ pc = "degenerate"
    /\ _putchar(NL)
    /\ pc' = "done"
    /\ UNCHANGED <<n, col, row, hist, intMax>>

\* the outer loop without its initialisation: col keeps what it held
OuterInit_Skip ==
    /\ pc = "outer_init"
    /\ pc' = "outer_test"
    /\ UNCHANGED <<n, col, row, out, nput, hist, intMax>>

\* col = 0
OuterInit_Zero ==
    /\ pc = "outer_init"
    /\ col' = 0
    /\ pc' = "outer_test"
    /\ UNCHANGED <<n, row, out, nput, hist, intMax>>

\* col = 1
OuterInit ==
    /\ pc = "outer_init"
    /\ col' = 1
    /\ pc' = "outer_test"
    /\ UNCHANGED <<n, row, out, nput, hist, intMax>>

\* col < n
OuterTest_Lt ==
    /\ pc = "outer_test"
    /\ pc' = IF col < n THEN "inner_init" ELSE "done"
    /\ UNCHANGED <<n, col, row, out, nput, hist, intMax>>

\* col <= n
OuterTest ==
    /\ pc = "outer_test"
    /\ pc' = IF col <= n THEN "inner_init" ELSE "done"
    /\ UNCHANGED <<n, col, row, out, nput, hist, intMax>>

\* row = 0
InnerInit_Zero ==
    /\ pc = "inner_init"
    /\ row' = 0
    /\ pc' = "inner_test"
    /\ UNCHANGED <<n, col, out, nput, hist, intMax>>

\* row = 1 done once, before the outer loop, instead of once per line
InnerInit_Hoisted ==
    /\ pc = "inner_init"
    /\ row' = IF col = 1 THEN 1 ELSE row
    /\ pc' = "inner_test"
    /\ UNCHANGED <<n, col, out, nput, hist, intMax>>

\* row = 1
InnerInit ==
    /\ pc = "inner_init"
    /\ row' = 1
    /\ pc' = "inner_test"
    /\ UNCHANGED <<n, col, out, nput, hist, intMax>>

\* row <= col
InnerTest_Le ==
    /\ pc = "inner_test"
    /\ pc' = IF row <= col THEN "put_space" ELSE "put_backslash"
    /\ UNCHANGED <<n, col, row, out, nput, hist, intMax>>

\* row < col
InnerTest ==
    /\ pc = "inner_test"
    /\ pc' = IF row < col THEN "put_space" ELSE "put_backslash"
    /\ UNCHANGED <<n, col, row, out, nput, hist, intMax>>

\* the space written to the stream without going through _putchar
PutSpace_Direct ==
    /\ pc = "put_space"
    /\ out' = Append(out, SP)
    /\ pc' = "inner_incr"
    /\ UNCHANGED <<n, col, row, nput, hist, intMax>>

\* _putchar(' ')
PutSpace ==
    /\ pc = "put_space"
    /\ _putchar(SP)
    /\ pc' = "inner_incr"
    /\ UNCHANGED <<n, col, row, hist, intMax>>

\* row += 2
InnerIncr_Two ==
    /\ pc = "inner_incr"
    /\ row < intMax - 1
    /\ row' = row + 2
    /\ pc' = "inner_test"
    /\ UNCHANGED <<n, col, out, nput, hist, intMax>>

\* row++
InnerIncr ==
    /\ pc = "inner_incr"
    /\ row < intMax
    /\ row' = row + 1
    /\ pc' = "inner_test"
    /\ UNCHANGED <<n, col, out, nput, hist, intMax>>

\* _putchar('\\')
PutBackslash ==
    /\ pc = "put_backslash"
    /\ _putchar(BS)
    /\ pc' = "put_newline"
    /\ UNCHANGED <<n, col, row, hist, intMax>>

\* _putchar('\n') that ends a line
PutNewline ==
    /\ pc = "put_newline"
    /\ _putchar(NL)
    /\ pc' = "outer_incr"
    /\ UNCHANGED <<n, col, row, hist, intMax>>

\* col++ where col + 1 is representable
OuterIncr ==
    /\ pc = "outer_incr"
    /\ col < intMax
    /\ col' = col + 1
    /\ pc' = "outer_test"
    /\ UNCHANGED <<n, row, out, nput, hist, intMax>>

\* number of characters print_diagonal(k) writes when col never overflows
FullLen(k) == (k * (k + 1)) \div 2 + k

\* col++ at col = INT_MAX is signed overflow, undefined behaviour.
\* Outcome 1: the increment wraps to INT_MIN and the loop goes on
\* (followed through the first wrap-around only).
OuterIncrWrap ==
    /\ pc = "outer_incr"
    /\ col = intMax
    /\ Len(out) <= FullLen(intMax)
    /\ col' = IntMin
    /\ pc' = "outer_test"
    /\ UNCHANGED <<n, row, out, nput, hist, intMax>>

\* Outcome 2: the build traps on signed overflow and the program aborts.
OuterIncrTrap ==
    /\ pc = "outer_incr"
    /\ col = intMax
    /\ pc' = "trap"
    /\ UNCHANGED <<n, col, row, out, nput, hist, intMax>>

\* the function returns to the caller, which keeps what was written
Return ==
    /\ pc = "done"
    /\ hist' = Append(hist, [n |-> n, out |-> out])
    /\ pc' = "idle"
    /\ UNCHANGED <<n, col, row, out, nput, intMax>>

Body ==
    \/ Entry
    \/ Degenerate
    \/ OuterInit
    \/ OuterTest
    \/ InnerInit
    \/ InnerTest
    \/ PutSpace
    \/ InnerIncr
    \/ PutBackslash
    \/ PutNewline
    \/ OuterIncr
    \/ Return

InitWith(m) ==
    /\ intMax = m
    /\ n = 0
    /\ col = 0
    /\ row = 0
    /\ pc = "idle"
    /\ out = <<>>
    /\ nput = 0
    /\ hist = <<>>

\* calls with small arguments on a 32-bit int
Init == InitWith(INT_MAX)

Next == CallSmall \/ Body

Spec == Init /\ [][Next]_vars

\* one call with any argument of a WBits-wide int
InitW == InitWith(IntMaxW)

NextW == CallAny \/ Body \/ OuterIncrWrap \/ OuterIncrTrap

SpecW == InitW /\ [][NextW]_vars

TypeOK ==
    /\ pc \in {"idle", "entry", "degenerate", "outer_init", "outer_test",
               "inner_init", "inner_test", "put_space", "inner_incr",
               "put_backslash", "put_newline", "outer_incr", "done", "trap"}
    /\ n \in IntMin..intMax
    /\ col \in IntMin..intMax
    /\ row \in IntMin..intMax
    /\ out \in Seq(Chars)
    /\ nput \in Nat

\* ---- what the documentation says is written ----
Spaces(k) == [i \in 1..k |-> SP]

\* line i: i-1 spaces, a backslash, a newline
Line(i) == Spaces(i - 1) \o <<BS, NL>>

RECURSIVE Expected(_)
Expected(k) == IF k <= 0 THEN <<>> ELSE Expected(k - 1) \o Line(k)

Count(s, c) == Cardinality({i \in DOMAIN s : s[i] = c})

IsPrefix(s, t) == Len(s) <= Len(t) /\ SubSeq(t, 1, Len(s)) = s

\* number of characters after the last newline of s
RECURSIVE OpenLen(_)
OpenLen(s) ==
    IF s = <<>> \/ s[Len(s)] = NL THEN 0
    ELSE 1 + OpenLen(SubSeq(s, 1, Len(s) - 1))

\* the last (unterminated) line of s
OpenLine(s) == SubSeq(s, Len(s) - OpenLen(s) + 1, Len(s))

Sum(k) == (k * (k + 1)) \div 2

InCall == pc \notin {"idle"}

\* C1: for n > 0, when print_diagonal(n) returns the output is exactly n
\* lines, line i being i-1 spaces, one backslash and one newline, with
\* nothing before the first line or after the last.
C1_Diagonal ==
    (pc = "done" /\ n > 0) =>
        /\ Count(out, NL) = n
        /\ out = Expected(n)
        /\ \A i \in 1..n :
             SubSeq(out, Sum(i - 1) + (i - 1) + 1, Sum(i) + i) = Line(i)
        /\ Len(out) = Sum(n) + n

C1_Witness == pc = "done" /\ n = 3 /\ out = <<BS, NL, SP, BS, NL, SP, SP, BS, NL>>

\* C2: for n <= 0 the call writes exactly one character, a newline, and
\* stops; no space and no backslash is written and neither loop is entered.
C2_Degenerate ==
    (InCall /\ n <= 0) =>
        /\ pc \in {"entry", "degenerate", "done"}
        /\ Count(out, SP) = 0
        /\ Count(out, BS) = 0
        /\ pc \in {"entry", "degenerate"} => out = <<>> /\ nput = 0
        /\ pc = "done" => out = <<NL>> /\ nput = 1

C2_Witness == pc = "done" /\ n = IntMin /\ out = <<NL>>

\* C3 as stated: for n > 0 the content (non-newline) characters written
\* number n + n(n-1), and the newlines number n.
C3_Original ==
    (pc = "done" /\ n > 0) =>
        /\ Len(out) - Count(out, NL) = n + n * (n - 1)
        /\ Count(out, NL) = n

\* C3 amended: for n > 0 the content characters written number
\* n + (1 + 2 + ... + (n-1)) = n(n+1)/2, the newlines number n, and row i
\* carries i content characters before its newline.
C3_Amended ==
    (pc = "done" /\ n > 0) =>
        /\ Len(out) - Count(out, NL) = n + Sum(n - 1)
        /\ Count(out, SP) + Count(out, BS) = Sum(n)
        /\ Count(out, NL) = n
        /\ \A i \in 1..n :
             /\ out[Sum(i) + i] = NL
             /\ \A j \in (Sum(i - 1) + i)..(Sum(i) + i - 1) : out[j] # NL

C3_Witness == pc = "done" /\ n = 3 /\ Len(out) - Count(out, NL) = 6

\* C4 as stated: for every n >= 0, n = 0 included, the final output has
\* exactly n newline-terminated lines.
C4_Original ==
    (pc = "done" /\ n >= 0) =>
        /\ Count(out, NL) = n
        /\ OpenLen(out) = 0

\* C4 amended: for every n >= 1 the final output has exactly n
\* newline-terminated lines; for n = 0 it has exactly one, an empty line.
C4_Amended ==
    (pc = "done" /\ n >= 0) =>
        /\ Count(out, NL) = (IF n = 0 THEN 1 ELSE n)
        /\ OpenLen(out) = 0

C4_Witness ==
    /\ pc = "done"
    /\ Len(hist) = 1
    /\ hist[1].n = 0
    /\ Count(hist[1].out, NL) = 1
    /\ n = 2
    /\ Count(out, NL) = 2

\* C5: no hidden state between calls: a call print_diagonal(n) made after
\* other calls returns the same characters as the first-ever call with
\* that n; two calls with the same n produce identical output.
C5_NoHiddenState ==
    \A i \in DOMAIN hist : \A j \in DOMAIN hist :
        hist[i].n = hist[j].n => hist[i].out = hist[j].out

C5_Witness ==
    /\ Len(hist) = 3
    /\ hist[1].n = 2
    /\ hist[2].n = 3
    /\ hist[3].n = 2
    /\ hist[3].out = hist[1].out

\* C6: on every n of the int range, minimum and maximum included, the
\* counters never step past the largest representable int (col++ and row++
\* never overflow) and the call does not abort.
C6_NoOverflow ==
    /\ pc = "outer_incr" => col < intMax
    /\ pc = "inner_incr" => row < intMax
    /\ pc # "trap"

\* C7: every step of the call either changes only col/row or appends
\* exactly one character to the end of the output through _putchar; what
\* was written is never removed or changed, n is never modified, and the
\* number of _putchar calls equals the output length.
C7_Step ==
    InCall =>
        /\ n' = n
        /\ \/ out' = out /\ nput' = nput
           \/ /\ Len(out') = Len(out) + 1
              /\ SubSeq(out', 1, Len(out)) = out
              /\ out'[Len(out')] \in Chars
              /\ nput' = nput + 1
              /\ col' = col
              /\ row' = row

C7_Frame == [](nput = Len(out)) /\ [][C7_Step]_vars

C7_Witness == pc = "done" /\ n = 3 /\ nput = 9 /\ Len(out) = 9

\* C8: for n > 0 the output written so far is always a prefix of the final
\* expected output; within a line the spaces come before the backslash,
\* every backslash is immediately followed by a newline as the next
\* character written, and no space is written directly after a backslash.
C8_State ==
    (InCall /\ n > 0) =>
        /\ IsPrefix(out, Expected(n))
        /\ pc = "done" => out = Expected(n)
        /\ \A i \in 1..(Len(out) - 1) :
             /\ out[i] = BS => out[i + 1] = NL
             /\ out[i] = SP => out[i + 1] \in {SP, BS}
        /\ (out # <<>> /\ out[Len(out)] = BS) => pc = "put_newline"

C8_Step ==
    (out' # out /\ out # <<>> /\ out[Len(out)] = BS) =>
        out' = Append(out, NL)

C10_Extension ==
    \A i \in DOMAIN hist : \A j \in DOMAIN hist :
        hist[j].n = hist[i].n + 1 =>
            /\ hist[i].n >= 1 =>
                 /\ hist[j].out = hist[i].out \o Spaces(hist[i].n) \o <<BS, NL>>
                 /\ IsPrefix(hist[i].out, hist[j].out)
                 /\ hist[i].out # hist[j].out
            /\ hist[i].n = 0 => ~IsPrefix(hist[i].out, hist[j].out)

C10_Witness ==
    /\ Len(hist) = 3
    /\ hist[1].n = 1
    /\ hist[2].n = 2
    /\ hist[3].n = 0
    /\ Len(hist[2].out) = Len(hist[1].out) + 3
====
